---- MODULE Spec2Model ----
(***************************************************************************)
(* Model of src/index.ts of youtube-transcript-nodejs: the identifier      *)
(* resolver (retrieveVideoId), the video info assembler (fetchVideoInfo    *)
(* with getVideoDetails, getRelatedVideos, getTwoColumnWatchNextResults),  *)
(* the caption feed parser (getTranscript) and the transcript orchestrator *)
(* (fetchTranscript).  One call of one public operation is followed from   *)
(* its invocation to the settlement of its promise; the awaits on fetch    *)
(* and on the nested calls are step boundaries, and reading the body of a  *)
(* response is part of its arrival.                                        *)
(***************************************************************************)
EXTENDS Integers, Sequences, FiniteSets, TLC

(***************************************************************************)
(* Bounds of the model.                                                    *)
(***************************************************************************)
MaxTracks == 2      \* longest captionTracks array of a page
MaxRelated == 2     \* longest secondaryResults.results array of a page
MaxFeed == 2        \* most elements of a caption feed body

(***************************************************************************)
(* Strings that denote a video.  A caller-supplied string is a prefix (its *)
(* shape), a run of `run` characters that are none of " & ? / whitespace,  *)
(* taken from the front of the (endless) character stream of video `vid`,  *)
(* and a tail of `tail` characters that starts with a delimiter `&`.       *)
(* Two strings are equal exactly when the four fields are equal.           *)
(***************************************************************************)
Vids == {"A", "B"}

UrlShapes ==
    {"youtu.be/", "https://youtu.be/", "youtube.com/watch?v=",
     "youtube.com/embed/", "youtube.com/v/", "youtube.com/c/x/"}

Shapes == {"bare", "example.com/"} \cup UrlShapes

PrefixLen(shape) ==
    CASE shape = "bare" -> 0
      [] shape = "youtu.be/" -> 9
      [] shape = "https://youtu.be/" -> 17
      [] shape = "youtube.com/watch?v=" -> 20
      [] shape = "youtube.com/embed/" -> 18
      [] shape = "youtube.com/v/" -> 14
      [] shape = "youtube.com/c/x/" -> 16
      [] shape = "example.com/" -> 12

Str(shape, vid, run, tail) ==
    [shape |-> shape, vid |-> vid, run |-> run, tail |-> tail]

\* String.prototype.length
StrLen(s) == PrefixLen(s.shape) + s.run + s.tail

\* the canonical 11-character token of a video, as the host writes it
Token(vid) == Str("bare", vid, 11, 0)

\* the quantifier {11} of the capture group of RE_YOUTUBE
CaptureLen == 11

\* RE_YOUTUBE with a capture group that takes the whole run, {11,}
RE_YOUTUBE_Greedy(s) ==
    IF s.shape \in UrlShapes /\ s.run >= CaptureLen
    THEN << Str("bare", s.vid, s.run, 0) >>
    ELSE << >>

\* RE_YOUTUBE applied by String.prototype.match: the match array (here its
\* capture group only), or the empty sequence for null.  The pattern needs
\* one of the known prefixes followed by at least CaptureLen characters that
\* are none of " & ? / whitespace, and captures the first CaptureLen of them.
RE_YOUTUBE(s) ==
    IF s.shape \in UrlShapes /\ s.run >= CaptureLen
    THEN << Str("bare", s.vid, CaptureLen, 0) >>
    ELSE << >>

\* a match array "with a length": the code tests `matchId && matchId.length`
\* retrieveVideoId: [ok |-> TRUE, id |-> the identifier] on return,
\* [ok |-> FALSE] when it throws the base YoutubeTranscriptError
retrieveVideoId(videoId) ==
    IF StrLen(videoId) = 11
    THEN [ok |-> TRUE, id |-> videoId]
    ELSE LET matchId == RE_YOUTUBE(videoId)
         IN  IF Len(matchId) > 0
             THEN [ok |-> TRUE, id |-> matchId[1]]
             ELSE [ok |-> FALSE, id |-> videoId]

(***************************************************************************)
(* Language codes.  config?.lang is undefined or a string; the empty       *)
(* string is a string that JavaScript treats as false.                     *)
(***************************************************************************)
NoLang == "undefined"
LanguageCodes == {"en", "fr"}
Langs == {NoLang, ""} \cup LanguageCodes

\* the truth value of `config?.lang`
Truthy(lang) == lang # NoLang /\ lang # ""

(***************************************************************************)
(* Caption tracks.  The baseUrl of a track is a URL with query parameters  *)
(* v, lang and name; Absent stands for a parameter the URL does not have   *)
(* (URLSearchParams.get gives null).                                       *)
(***************************************************************************)
Absent == "null"

Url(v, lang, name) == [v |-> v, lang |-> lang, name |-> name]

\* the i-th caption track of video vid, with language code code
CaptionTrack(vid, code, i) ==
    [languageCode |-> code, baseUrl |-> Url(vid, code, i)]

SeqsUpTo(S, n) == UNION {[1..k -> S] : k \in 0..n}

\* the captionTracks arrays a page of the host can carry
TrackLists ==
    {[i \in 1..Len(codes) |-> CaptionTrack("A", codes[i], i)] :
        codes \in SeqsUpTo(LanguageCodes, MaxTracks)}

(***************************************************************************)
(* The watch page body, by what the code looks for in it.                  *)
(*   captcha      body.includes('class="g-recaptcha"')                     *)
(*   playability  body.includes('"playabilityStatus":')                    *)
(*   captions     what follows the first '"captions":' marker              *)
(*   watchNext    what lies between '"twoColumnWatchNextResults":' and the *)
(*                next '},"currentVideoEndpoint":'                         *)
(***************************************************************************)
CaptionKinds == {"absent", "badjson", "norenderer", "notracks", "tracks"}

CaptionBlocks ==
    {[kind |-> k, captionTracks |-> << >>] : k \in CaptionKinds \ {"tracks"}}
    \cup {[kind |-> "tracks", captionTracks |-> t] : t \in TrackLists}

\* an entry of secondaryResults.secondaryResults.results
\*   cvr       it has a compactVideoRenderer
\*   videoId   compactVideoRenderer.videoId
\*   complete  the renderer has every nested field the mapping reads
ResultItems ==
    {[cvr |-> FALSE, videoId |-> Token("A"), complete |-> TRUE],
     [cvr |-> TRUE, videoId |-> Token("B"), complete |-> FALSE]}
    \cup {[cvr |-> TRUE, videoId |-> Token(v), complete |-> TRUE] : v \in Vids}

\* data.results.results.contents
\*   missing      the path is not there
\*   nosecondary  no entry has a videoSecondaryInfoRenderer
\*   noprimary    a secondary info entry, but no videoPrimaryInfoRenderer
\*   full         both entries, with every nested field
ContentKinds == {"missing", "nosecondary", "noprimary", "full"}


WatchNextBlocks ==
    {[kind |-> k, contents |-> "missing", hasResults |-> FALSE, results |-> << >>] :
        k \in {"nostart", "nofinish", "badjson"}}
    \cup {[kind |-> "object", contents |-> c, hasResults |-> FALSE, results |-> << >>] :
            c \in ContentKinds}
    \cup {[kind |-> "object", contents |-> c, hasResults |-> TRUE, results |-> r] :
            c \in ContentKinds, r \in SeqsUpTo(ResultItems, MaxRelated)}

PageBodies ==
    [captcha : BOOLEAN, playability : BOOLEAN,
     captions : CaptionBlocks, watchNext : WatchNextBlocks]

(***************************************************************************)
(* Outcomes of a function: a returned value or a thrown error.             *)
(***************************************************************************)
Return(v) == [kind |-> "return", value |-> v]
Throw(e) == [kind |-> "throw", error |-> e]

Undefined == [undefined |-> TRUE]

\* the errors of the taxonomy; InvalidIdentifier is the base
\* YoutubeTranscriptError thrown by retrieveVideoId
TypedErrors ==
    {"InvalidIdentifier", "TooManyRequests", "VideoUnavailable",
     "NotAvailable", "LanguageNotAvailable"}

\* errors of the runtime, not of the taxonomy
RuntimeErrors == {"SyntaxError", "TypeError", "FetchFailed"}

(***************************************************************************)
(* Embedded-data extraction.                                               *)
(***************************************************************************)
\* missing markers treated as fatal, an error instead of undefined
getTwoColumnWatchNextResults_Fatal(videoPageBody) ==
    LET w == videoPageBody.watchNext
    IN  IF w.kind \in {"nostart", "nofinish"} THEN Throw("TypeError")
        ELSE IF w.kind = "badjson" THEN Throw("SyntaxError")
        ELSE Return(w)

\* JSON.parse of the text between the markers, or undefined
getTwoColumnWatchNextResults(videoPageBody) ==
    LET w == videoPageBody.watchNext
    IN  IF w.kind \in {"nostart", "nofinish"} THEN Return(Undefined)
        ELSE IF w.kind = "badjson" THEN Throw("SyntaxError")
        ELSE Return(w)

VideoDetailsOf(data) ==
    [title |-> "title", desc |-> "desc", ownerName |-> "owner", ownerUrl |-> "url"]

getVideoDetails(videoPageBody) ==
    LET r == getTwoColumnWatchNextResults(videoPageBody)
    IN  IF r.kind = "throw" THEN r
        ELSE IF r.value = Undefined THEN Return(Undefined)
        ELSE IF r.value.contents = "missing" THEN Throw("TypeError")
        ELSE IF r.value.contents = "nosecondary" THEN Return(Undefined)
        ELSE IF r.value.contents = "noprimary" THEN Throw("TypeError")
        ELSE Return(VideoDetailsOf(r.value))

\* the mapping of one compactVideoRenderer
RelatedVideoOf(item) == [videoId |-> item.videoId]

getRelatedVideos(videoPageBody, videoId) ==
    LET r == getTwoColumnWatchNextResults(videoPageBody)
    IN  IF r.kind = "throw" THEN r
        ELSE IF r.value = Undefined THEN Return(<< >>)
        ELSE IF ~r.value.hasResults THEN Return(<< >>)
        ELSE LET kept == SelectSeq(r.value.results,
                            LAMBDA item : item.cvr /\ item.videoId # videoId)
             IN  IF \E i \in 1..Len(kept) : ~kept[i].complete
                 THEN Throw("TypeError")
                 ELSE Return([i \in 1..Len(kept) |-> RelatedVideoOf(kept[i])])

VideoInfo(videoDetails, captionTracks, relatedVideos) ==
    [videoDetails |-> videoDetails, captionTracks |-> captionTracks,
     relatedVideos |-> relatedVideos]

\* fetchVideoInfo from the arrival of the page body to its return or throw
classifyPage(videoPageBody, videoId) ==
    LET videoDetails == getVideoDetails(videoPageBody)
        relatedVideos == getRelatedVideos(videoPageBody, videoId)
        captions == videoPageBody.captions
    IN  IF videoDetails.kind = "throw" THEN videoDetails
        ELSE IF relatedVideos.kind = "throw" THEN relatedVideos
        ELSE IF captions.kind = "absent"
        THEN IF videoPageBody.captcha THEN Throw("TooManyRequests")
             ELSE IF ~videoPageBody.playability THEN Throw("VideoUnavailable")
             ELSE Return(VideoInfo(videoDetails.value, << >>, relatedVideos.value))
        ELSE IF captions.kind \in {"badjson", "norenderer"}
        THEN Return(VideoInfo(videoDetails.value, << >>, relatedVideos.value))
        ELSE IF captions.kind = "notracks" THEN Throw("NotAvailable")
        ELSE Return(VideoInfo(videoDetails.value, captions.captionTracks,
                              relatedVideos.value))

(***************************************************************************)
(* Caption feed.  A feed body is a sequence of pieces; a piece is either   *)
(* text that RE_XML_TRANSCRIPT matches, <text start="S" dur="D">T</text>,  *)
(* or markup that it does not match.                                       *)
(***************************************************************************)
FeedPieces ==
    {[text |-> TRUE, start |-> "1.5", dur |-> "2.25", body |-> "Hello"],
     [text |-> TRUE, start |-> "abc", dur |-> "", body |-> ""],
     [text |-> FALSE, start |-> "", dur |-> "", body |-> ""]}

FeedBodies == SeqsUpTo(FeedPieces, MaxFeed)

\* a number of the feed, in hundredths; NaN is not a number
NaN == [nan |-> TRUE, hundredths |-> 0]
Num(h) == [nan |-> FALSE, hundredths |-> h]

parseFloat(str) ==
    CASE str = "1.5" -> Num(150)
      [] str = "2.25" -> Num(225)
      [] OTHER -> NaN

\* RE_XML_TRANSCRIPT without the g flag: the first match only
RE_XML_TRANSCRIPT_First(transcriptBody) ==
    LET all == SelectSeq(transcriptBody, LAMBDA piece : piece.text)
    IN  IF Len(all) > 0 THEN << all[1] >> ELSE << >>

\* [...transcriptBody.matchAll(RE_XML_TRANSCRIPT)]: the matches, in order
RE_XML_TRANSCRIPT(transcriptBody) ==
    SelectSeq(transcriptBody, LAMBDA piece : piece.text)

\* getTranscript from the arrival of the response to its return or throw
parseFeed(transcriptURL, response) ==
    IF ~response.ok
    THEN [kind |-> "throw", error |-> "NotAvailable", videoId |-> transcriptURL.v]
    ELSE LET results == RE_XML_TRANSCRIPT(response.body)
         IN  Return([i \in 1..Len(results) |->
                        [text |-> results[i].body,
                         duration |-> parseFloat(results[i].dur),
                         offset |-> parseFloat(results[i].start),
                         lang |-> transcriptURL.lang]])

\* the track URLs getTranscript is called with on its own
TrackUrls == {Url(v, l, 1) : v \in {"A", Absent}, l \in {"en", Absent}}

(***************************************************************************)
(* Track selection of fetchTranscript.                                     *)
(***************************************************************************)
\* a test of the track list instead of its languages
SomeTrack_NonEmpty(captionTracks, lang) == Len(captionTracks) > 0

\* captionTracks.some(track => track.languageCode === lang)
SomeTrack(captionTracks, lang) ==
    \E i \in 1..Len(captionTracks) : captionTracks[i].languageCode = lang

\* captionTracks.map(track => track.languageCode)
LanguageCodesOf(captionTracks) ==
    [i \in 1..Len(captionTracks) |-> captionTracks[i].languageCode]

\* a selection that ignores the language
selectTrack_First(captionTracks, lang) ==
    IF Len(captionTracks) > 0 THEN << captionTracks[1] >> ELSE << >>

\* captionTracks.find(...) or captionTracks[0]: a sequence of one track, or
\* the empty sequence for undefined
selectTrack(captionTracks, lang) ==
    IF Truthy(lang)
    THEN LET found == SelectSeq(captionTracks,
                        LAMBDA track : track.languageCode = lang)
         IN  IF Len(found) > 0 THEN << found[1] >> ELSE << >>
    ELSE IF Len(captionTracks) > 0 THEN << captionTracks[1] >> ELSE << >>

(***************************************************************************)
(* The state of one call.                                                  *)
(***************************************************************************)
VARIABLES
    op,                 \* the operation that was called
    viewCount,          \* the argument of convertViewCount
    videoId,            \* its argument (fetchTranscript, fetchVideoInfo)
    config,             \* config?.lang
    pc,                 \* where the call stands
    requests,           \* the network requests issued so far, in order
    videoPageBody,      \* the body of the watch page, once received
    videoTrack,         \* the outcome of fetchVideoInfo
    transcriptURL,      \* the URL of the caption feed that is fetched
    transcriptResponse, \* the response to the feed request
    transcript,         \* the outcome of getTranscript
    result              \* the outcome of the call

vars == << op, viewCount, videoId, config, pc, requests, videoPageBody, videoTrack,
           transcriptURL, transcriptResponse, transcript, result >>

None == [none |-> TRUE]
Pending == [kind |-> "pending"]

\* the strings the operations are called with
Runs == {2, 10, 11, 12}

VideoIdInputs ==
    {Str("bare", "A", r, 0) : r \in Runs}
    \cup {Str(sh, "A", 11, 0) : sh \in Shapes}
    \cup {Str("youtu.be/", "A", r, 0) : r \in Runs}
    \cup {Str("youtube.com/watch?v=", "A", r, t) : r \in Runs, t \in {0, 4}}

Init ==
    /\ \/ /\ op \in {"fetchTranscript", "fetchVideoInfo"}
          /\ videoId \in VideoIdInputs
          /\ config \in Langs
          /\ transcriptURL = None
       \/ /\ op = "getTranscript"
          /\ videoId = None
          /\ config = NoLang
          /\ transcriptURL \in TrackUrls
    /\ viewCount = None
    /\ pc = "called"
    /\ requests = << >>
    /\ videoPageBody = None
    /\ videoTrack = Pending
    /\ transcriptResponse = None
    /\ transcript = Pending
    /\ result = Pending

PageRequest(identifier, lang) ==
    [kind |-> "page", identifier |-> identifier,
     acceptLanguage |-> IF Truthy(lang) THEN lang ELSE Absent]

FeedRequest(url) == [kind |-> "feed", url |-> url]

\* settle fetchVideoInfo with outcome o: the call itself when fetchVideoInfo
\* was called, the await of fetchTranscript otherwise
SettleVideoInfo(o) ==
    /\ videoTrack' = o
    /\ IF op = "fetchVideoInfo"
       THEN pc' = "done" /\ result' = o
       ELSE pc' = "infoSettled" /\ result' = result

\* fetchVideoInfo up to `await fetch(...)`
FetchVideoInfoStart ==
    /\ pc = "called"
    /\ op \in {"fetchTranscript", "fetchVideoInfo"}
    /\ LET r == retrieveVideoId(videoId)
       IN  IF r.ok
           THEN /\ requests' = Append(requests, PageRequest(r.id, config))
                /\ pc' = "awaitPage"
                /\ UNCHANGED << videoTrack, result >>
           ELSE /\ SettleVideoInfo(Throw("InvalidIdentifier"))
                /\ UNCHANGED requests
    /\ UNCHANGED << op, viewCount, videoId, config, videoPageBody, transcriptURL,
                    transcriptResponse, transcript >>

\* the page arrives: the rest of fetchVideoInfo
PageResponse ==
    /\ pc = "awaitPage"
    /\ \E body \in PageBodies :
          /\ videoPageBody' = body
          /\ SettleVideoInfo(classifyPage(body, videoId))
    /\ UNCHANGED << op, viewCount, videoId, config, requests, transcriptURL,
                    transcriptResponse, transcript >>

\* a failed page request that is issued again
PageFetchFails_Retry ==
    /\ pc = "awaitPage"
    /\ Len(requests) < 3
    /\ requests' = Append(requests, requests[1])
    /\ UNCHANGED << op, viewCount, videoId, config, pc, videoPageBody, videoTrack,
                    transcriptURL, transcriptResponse, transcript, result >>

\* the page request fails: fetch rejects and fetchVideoInfo with it
PageFetchFails ==
    /\ pc = "awaitPage"
    /\ SettleVideoInfo(Throw("FetchFailed"))
    /\ UNCHANGED << op, viewCount, videoId, config, requests, videoPageBody,
                    transcriptURL, transcriptResponse, transcript >>

\* fetchTranscript from the settlement of fetchVideoInfo to the feed request
FetchTranscriptResume ==
    /\ pc = "infoSettled"
    /\ op = "fetchTranscript"
    /\ videoPageBody' = None
    /\ IF videoTrack.kind = "throw"
       THEN /\ result' = videoTrack
            /\ pc' = "done"
            /\ UNCHANGED << requests, transcriptURL >>
       ELSE LET captionTracks == videoTrack.value.captionTracks
                selected == selectTrack(captionTracks, config)
            IN  IF Truthy(config) /\ ~SomeTrack(captionTracks, config)
                THEN /\ result' = [kind |-> "throw",
                                   error |-> "LanguageNotAvailable",
                                   lang |-> config,
                                   availableLangs |-> LanguageCodesOf(captionTracks),
                                   videoId |-> videoId]
                     /\ pc' = "done"
                     /\ UNCHANGED << requests, transcriptURL >>
                ELSE IF Len(selected) = 0
                THEN /\ result' = Throw("TypeError")
                     /\ pc' = "done"
                     /\ UNCHANGED << requests, transcriptURL >>
                ELSE /\ transcriptURL' = selected[1].baseUrl
                     /\ requests' = Append(requests, FeedRequest(selected[1].baseUrl))
                     /\ pc' = "awaitFeed"
                     /\ UNCHANGED result
    /\ UNCHANGED << op, viewCount, videoId, config, videoTrack, transcriptResponse, transcript >>

\* getTranscript called on its own, up to `await fetch(...)`
GetTranscriptStart ==
    /\ pc = "called"
    /\ op = "getTranscript"
    /\ requests' = Append(requests, FeedRequest(transcriptURL))
    /\ pc' = "awaitFeed"
    /\ UNCHANGED << op, viewCount, videoId, config, videoPageBody, videoTrack,
                    transcriptURL, transcriptResponse, transcript, result >>

\* settle getTranscript with outcome o
SettleTranscript(o) ==
    /\ transcript' = o
    /\ IF op = "getTranscript"
       THEN pc' = "done" /\ result' = o
       ELSE pc' = "transcriptSettled" /\ result' = result

\* the feed arrives: the rest of getTranscript
FeedResponse ==
    /\ pc = "awaitFeed"
    /\ \E ok \in BOOLEAN, body \in FeedBodies :
          LET response == [ok |-> ok, body |-> body]
          IN  /\ transcriptResponse' = response
              /\ SettleTranscript(parseFeed(transcriptURL, response))
    /\ UNCHANGED << op, viewCount, videoId, config, requests, videoPageBody, videoTrack,
                    transcriptURL >>

\* the feed request fails: fetch rejects and getTranscript with it
FeedFetchFails ==
    /\ pc = "awaitFeed"
    /\ SettleTranscript(Throw("FetchFailed"))
    /\ UNCHANGED << op, viewCount, videoId, config, requests, videoPageBody, videoTrack,
                    transcriptURL, transcriptResponse >>

\* fetchTranscript from the settlement of getTranscript to its own
FetchTranscriptFinish ==
    /\ pc = "transcriptSettled"
    /\ result' = IF transcript.kind = "throw"
                 THEN transcript
                 ELSE Return([videoDetails |-> videoTrack.value.videoDetails,
                              transcript |-> transcript.value,
                              relatedVideos |-> videoTrack.value.relatedVideos])
    /\ pc' = "done"
    /\ UNCHANGED << op, viewCount, videoId, config, requests, videoPageBody, videoTrack,
                    transcriptURL, transcriptResponse, transcript >>

Next ==
    \/ FetchVideoInfoStart
    \/ PageResponse
    \/ PageFetchFails
    \/ FetchTranscriptResume
    \/ GetTranscriptStart
    \/ FeedResponse
    \/ FeedFetchFails
    \/ FetchTranscriptFinish

Spec == Init /\ [][Next]_vars

(***************************************************************************)
(* convertViewCount, called on its own.  A view-count text is undefined or *)
(* a string, a sequence of characters; an integer result is a number or    *)
(* NaN.                                                                    *)
(***************************************************************************)
MaxViewLen == 3     \* longest view-count text

Digits == {"0", "1", "2"}
ViewChars == Digits \cup {",", ".", "v"}

ViewCountInputs ==
    {[defined |-> FALSE, chars |-> << >>]}
    \cup {[defined |-> TRUE, chars |-> c] : c \in SeqsUpTo(ViewChars, MaxViewLen)}

IntNaN == [nan |-> TRUE, int |-> 0]
IntNum(n) == [nan |-> FALSE, int |-> n]

DigitValue(c) == CASE c = "0" -> 0 [] c = "1" -> 1 [] c = "2" -> 2

\* the number that a sequence of digits writes in base 10
RECURSIVE DigitsValue(_)
DigitsValue(chars) ==
    IF chars = << >> THEN 0
    ELSE 10 * DigitsValue(SubSeq(chars, 1, Len(chars) - 1))
         + DigitValue(chars[Len(chars)])

\* the length of the longest prefix of digits
RECURSIVE DigitPrefixLen(_)
DigitPrefixLen(chars) ==
    IF chars = << >> \/ chars[1] \notin Digits THEN 0
    ELSE 1 + DigitPrefixLen(Tail(chars))

\* parseInt(str, 10) of a string without blanks or sign: the number of its
\* leading digits, NaN when it does not start with a digit
parseInt(chars) ==
    LET n == DigitPrefixLen(chars)
    IN  IF n = 0 THEN IntNaN ELSE IntNum(DigitsValue(SubSeq(chars, 1, n)))

\* String.prototype.replace(/[^\d.]/g, '')
StripNonNumeric(chars) == SelectSeq(chars, LAMBDA c : c \in Digits \cup {"."})

\* String.prototype.replace(/\./g, '')
StripDots(chars) == SelectSeq(chars, LAMBDA c : c # ".")

convertViewCount(text) ==
    IF ~text.defined \/ text.chars = << >> THEN IntNum(0)
    ELSE LET cleaned == StripNonNumeric(text.chars)
         IN  parseInt(StripDots(cleaned))

InitView ==
    /\ op = "convertViewCount"
    /\ viewCount \in ViewCountInputs
    /\ videoId = None
    /\ config = NoLang
    /\ transcriptURL = None
    /\ pc = "called"
    /\ requests = << >>
    /\ videoPageBody = None
    /\ videoTrack = Pending
    /\ transcriptResponse = None
    /\ transcript = Pending
    /\ result = Pending

\* the call of convertViewCount
ConvertViewCount ==
    /\ pc = "called"
    /\ op = "convertViewCount"
    /\ result' = Return(convertViewCount(viewCount))
    /\ pc' = "done"
    /\ UNCHANGED << op, viewCount, videoId, config, requests, videoPageBody,
                    videoTrack, transcriptURL, transcriptResponse, transcript >>

NextView == ConvertViewCount

SpecView == InitView /\ [][NextView]_vars

(***************************************************************************)
(* Properties.                                                             *)
(***************************************************************************)
\* fetchVideoInfo has settled on a page body that is still in scope
PageClassified == videoPageBody # None /\ videoTrack # Pending

\* the page request of the call, if one was issued
PageRequests == {i \in 1..Len(requests) : requests[i].kind = "page"}
FeedRequests == {i \in 1..Len(requests) : requests[i].kind = "feed"}

\* C1: a page body with the CAPTCHA marker always makes fetchVideoInfo fail
\* with TooManyRequests, whatever else the body contains.
C1_CaptchaAlwaysTooManyRequests ==
    (PageClassified /\ videoPageBody.captcha)
        => videoTrack = Throw("TooManyRequests")

\* the language codes of the tracks of the page, none when the page has no
\* caption block or a block without tracks
PageLanguageCodes(body) ==
    {body.captions.captionTracks[i].languageCode :
        i \in 1..Len(body.captions.captionTracks)}

C3_EveryFailureIsTyped ==
    (pc = "done" /\ result.kind = "throw") => result.error \in TypedErrors

\* C4: fetchTranscript issues at most two requests, the page request and
\* then at most one feed request; the feed request comes only after
\* fetchVideoInfo has returned and a track of its list was selected, and no
\* request is issued once a request or the call has failed.
C4_TwoSequentialRequests ==
    /\ [](op = "fetchTranscript" =>
            /\ Len(requests) <= 2
            /\ (Len(requests) >= 1 => requests[1].kind = "page")
            /\ (Len(requests) = 2 => requests[2].kind = "feed")
            /\ (pc = "called" => requests = << >>)
            /\ (FeedRequests # {} =>
                  /\ videoTrack.kind = "return"
                  /\ pc \in {"awaitFeed", "transcriptSettled", "done"}
                  /\ transcriptURL = requests[2].url
                  /\ \E i \in 1..Len(videoTrack.value.captionTracks) :
                        videoTrack.value.captionTracks[i].baseUrl = requests[2].url))
    /\ [][(/\ op = "fetchTranscript"
           /\ \/ videoTrack.kind = "throw"
              \/ transcript.kind = "throw"
              \/ result.kind = "throw")
          => requests' = requests]_vars

\* a call that issued both requests and then failed on the feed
C4_Witness ==
    /\ op = "fetchTranscript"
    /\ pc = "done"
    /\ Len(requests) = 2
    /\ result.kind = "throw"
    /\ result.error = "NotAvailable"

\* C5: without the "captions": delimiter the outcome of fetchVideoInfo is
\* TooManyRequests when the CAPTCHA marker is present, else
\* VideoUnavailable when the playability marker is missing, else a VideoInfo
\* with an empty caption-track list.
C5_NoCaptionsDecidedInOrder ==
    (PageClassified /\ videoPageBody.captions.kind = "absent")
    => IF videoPageBody.captcha THEN videoTrack = Throw("TooManyRequests")
       ELSE IF ~videoPageBody.playability
            THEN videoTrack = Throw("VideoUnavailable")
            ELSE /\ videoTrack.kind = "return"
                 /\ videoTrack.value.captionTracks = << >>

\* the first track, in host order, with the language code lang
FirstWithLanguage(captionTracks, lang) ==
    CHOOSE i \in 1..Len(captionTracks) :
        /\ captionTracks[i].languageCode = lang
        /\ \A j \in 1..(i - 1) : captionTracks[j].languageCode # lang

\* C6: when fetchVideoInfo returns a non-empty track list (and the lang, if
\* one is given, is the language code of some track), fetchTranscript
\* requests exactly one feed: that of the first track with the language
\* code lang when a lang is given, that of the first track otherwise; and
\* the result carries the videoDetails and relatedVideos of the VideoInfo.
C6_SelectedTrackAndCarriedInfo ==
    (/\ op = "fetchTranscript"
     /\ pc \in {"awaitFeed", "transcriptSettled", "done"}
     /\ videoTrack.kind = "return"
     /\ Len(videoTrack.value.captionTracks) > 0
     /\ Truthy(config) =>
           \E i \in 1..Len(videoTrack.value.captionTracks) :
               videoTrack.value.captionTracks[i].languageCode = config)
    => LET captionTracks == videoTrack.value.captionTracks
           expected == IF Truthy(config)
                       THEN captionTracks[FirstWithLanguage(captionTracks, config)]
                       ELSE captionTracks[1]
       IN  /\ Cardinality(FeedRequests) = 1
           /\ \A i \in FeedRequests : requests[i].url = expected.baseUrl
           /\ transcriptURL = expected.baseUrl
           /\ (pc = "done" /\ result.kind = "return") =>
                 /\ result.value.videoDetails = videoTrack.value.videoDetails
                 /\ result.value.relatedVideos = videoTrack.value.relatedVideos
                 /\ result.value.transcript = transcript.value

\* the requested language is that of the second track only, and the page
\* has video details and a related video
C6_Witness ==
    /\ op = "fetchTranscript"
    /\ pc = "done"
    /\ result.kind = "return"
    /\ config = "en"
    /\ Len(videoTrack.value.captionTracks) = 2
    /\ videoTrack.value.captionTracks[1].languageCode = "fr"
    /\ videoTrack.value.captionTracks[2].languageCode = "en"
    /\ result.value.videoDetails # Undefined
    /\ Len(result.value.relatedVideos) > 0

\* the positions of the <text> elements of a feed body
TextPositions(body) == {i \in 1..Len(body) : body[i].text}

\* the position of the k-th <text> element of a feed body
KthText(body, k) ==
    CHOOSE i \in TextPositions(body) :
        Cardinality({j \in TextPositions(body) : j <= i}) = k

\* C7: the outcome of getTranscript is decided by the status and the body:
\* a non-success status gives NotAvailable with the v parameter of the
\* track URL; a success status gives one segment per <text> element, in
\* document order, each with the lang parameter of the track URL.
C7_TranscriptFromStatusAndBody ==
    transcriptResponse # None
    => IF ~transcriptResponse.ok
       THEN /\ transcript.kind = "throw"
            /\ transcript.error = "NotAvailable"
            /\ transcript.videoId = transcriptURL.v
       ELSE /\ transcript.kind = "return"
            /\ Len(transcript.value)
                 = Cardinality(TextPositions(transcriptResponse.body))
            /\ \A k \in 1..Len(transcript.value) :
                  LET piece == transcriptResponse.body[
                                   KthText(transcriptResponse.body, k)]
                  IN  /\ transcript.value[k].text = piece.body
                      /\ transcript.value[k].offset = parseFloat(piece.start)
                      /\ transcript.value[k].duration = parseFloat(piece.dur)
                      /\ transcript.value[k].lang = transcriptURL.lang

\* a feed of two different <text> elements, fetched with success
C7_Witness ==
    /\ pc = "done"
    /\ transcriptResponse # None
    /\ transcriptResponse.ok
    /\ Len(transcriptResponse.body) = 2
    /\ transcriptResponse.body[1].text
    /\ transcriptResponse.body[2].text
    /\ transcriptResponse.body[1] # transcriptResponse.body[2]
    /\ Len(transcript.value) = 2

\* the input has a known URL shape: RE_YOUTUBE finds an identifier in it
HasUrlShape(s) == s.shape \in UrlShapes /\ s.run >= 11

\* C8: every page request targets an identifier of 11 characters: an input
\* of 11 characters unchanged, otherwise the 11-character token of an
\* input of a known URL shape; any other input fails with
\* InvalidIdentifier and no request is issued.
C8_IdentifierHasElevenCharacters ==
    op \in {"fetchTranscript", "fetchVideoInfo"}
    => /\ \A i \in PageRequests :
             /\ StrLen(requests[i].identifier) = 11
             /\ StrLen(videoId) = 11 => requests[i].identifier = videoId
             /\ StrLen(videoId) # 11 =>
                   /\ HasUrlShape(videoId)
                   /\ requests[i].identifier = Token(videoId.vid)
       /\ (pc # "called" /\ (StrLen(videoId) = 11 \/ HasUrlShape(videoId)))
             => PageRequests # {}
       /\ (pc # "called" /\ StrLen(videoId) # 11 /\ ~HasUrlShape(videoId))
             => /\ videoTrack = Throw("InvalidIdentifier")
                /\ requests = << >>

\* a URL whose run of identifier characters is longer than the identifier
C8_Witness ==
    /\ PageRequests # {}
    /\ videoId.shape = "youtube.com/watch?v="
    /\ videoId.run = 12
    /\ requests[1].identifier = Token("A")

\* C9: no RelatedVideo that fetchVideoInfo returns has the identifier of the
\* subject video, for a bare identifier and for a URL alike.
C9_SubjectVideoNotRelated ==
    (videoTrack.kind = "return" /\ PageRequests # {})
    => \A i \in 1..Len(videoTrack.value.relatedVideos) :
          videoTrack.value.relatedVideos[i].videoId # requests[1].identifier

\* the page body without its "captions": delimiter
WithoutCaptions(body) ==
    [body EXCEPT !.captions = [kind |-> "absent", captionTracks |-> << >>]]

\* C10: a caption block that does not parse, or has no
\* playerCaptionsTracklistRenderer, is classified exactly as a page without
\* the "captions": delimiter; only a parsed renderer without captionTracks
\* gives NotAvailable.
C10_UnparsedBlockAsNoBlock ==
    PageClassified
    => /\ videoPageBody.captions.kind \in {"badjson", "norenderer"}
             => videoTrack = classifyPage(WithoutCaptions(videoPageBody), videoId)
       /\ videoTrack = Throw("NotAvailable")
             => videoPageBody.captions.kind = "notracks"

\* the outcome that the caption block alone decides, for a page without
\* video details and related videos
CaptionOutcome(body) ==
    LET empty == Return(VideoInfo(Undefined, << >>, << >>))
    IN  CASE body.captions.kind = "absent" ->
               IF body.captcha THEN Throw("TooManyRequests")
               ELSE IF ~body.playability THEN Throw("VideoUnavailable")
               ELSE empty
          [] body.captions.kind \in {"badjson", "norenderer"} -> empty
          [] body.captions.kind = "notracks" -> Throw("NotAvailable")
          [] body.captions.kind = "tracks" ->
               Return(VideoInfo(Undefined, body.captions.captionTracks, << >>))

\* a related entry that the mapping of getRelatedVideos cannot read
UnreadableEntry(body, id) ==
    \E i \in 1..Len(body.watchNext.results) :
        /\ body.watchNext.results[i].cvr
        /\ body.watchNext.results[i].videoId # id
        /\ ~body.watchNext.results[i].complete

DigitsOf(text) == SelectSeq(text.chars, LAMBDA c : c \in Digits)

\* C12: convertViewCount returns the integer that the digits of its input
\* form once the separators are removed, and 0 for an input that is
\* undefined, empty, or a string without a digit.
C12_ViewCountIsDigitsOrZero ==
    (op = "convertViewCount" /\ pc = "done")
    => IF viewCount.defined /\ DigitsOf(viewCount) # << >>
       THEN result = Return(IntNum(DigitsValue(DigitsOf(viewCount))))
       ELSE result = Return(IntNum(0))

====
